---- MODULE Spec2Model ----
(***************************************************************************)
(* One run of BaltimoreGentrificationMapper.save_map                        *)
(* (baltimore_gentrification_real_data.py): the availability probe, the     *)
(* Census fetch, the derivation of the rates, the data-quality filter, the  *)
(* min-max scoring, the markers and legend, and the two writes of the       *)
(* output document.                                                         *)
(*                                                                          *)
(* Numbers are the values of a float64 column, modelled exactly: a pair     *)
(* <<n, d>> with d > 0 is the rational n/d in lowest terms, <<1, 0>> is     *)
(* +inf, <<-1, 0>> is -inf and <<0, 0>> is NaN.  Rounding of float64 is     *)
(* not modelled.                                                            *)
(***************************************************************************)
EXTENDS Integers, Sequences, FiniteSets, TLC

VARIABLES pc, api_status, response, census_df, m, file, calls, log

vars == <<pc, api_status, response, census_df, m, file, calls, log>>

\* Bounds of the model.
MaxRows == 3
MaxMoney == 3

----------------------------------------------------------------------------
\* float64 values and their arithmetic

NaN == <<0, 0>>
Inf == <<1, 0>>
NegInf == <<-1, 0>>
Zero == <<0, 1>>
One == <<1, 1>>

Abs(x) == IF x < 0 THEN -x ELSE x

Sign(x) == IF x < 0 THEN -1 ELSE IF x > 0 THEN 1 ELSE 0

RECURSIVE GCD(_, _)
GCD(a, b) == IF b = 0 THEN a ELSE GCD(b, a % b)

\* the value n/d, in the canonical form
Norm(n, d) ==
  IF d = 0 THEN <<Sign(n), 0>>
  ELSE LET g == GCD(Abs(n), Abs(d))
           s == IF d < 0 THEN -1 ELSE 1
       IN  <<(s * n) \div g, (s * d) \div g>>

Num(i) == <<i, 1>>

IsNaN(a) == a = NaN

IsInf(a) == a[2] = 0 /\ a[1] # 0

IsFinite(a) == a[2] > 0

Neg(a) == <<-a[1], a[2]>>

Add(a, b) ==
  IF IsNaN(a) \/ IsNaN(b) THEN NaN
  ELSE IF IsInf(a) /\ IsInf(b) THEN (IF a = b THEN a ELSE NaN)
  ELSE IF IsInf(a) THEN a
  ELSE IF IsInf(b) THEN b
  ELSE Norm(a[1] * b[2] + b[1] * a[2], a[2] * b[2])

Sub(a, b) == Add(a, Neg(b))

Mul(a, b) ==
  IF IsNaN(a) \/ IsNaN(b) THEN NaN
  ELSE IF IsInf(a) \/ IsInf(b) THEN <<Sign(a[1]) * Sign(b[1]), 0>>
  ELSE Norm(a[1] * b[1], a[2] * b[2])

\* x / 0 is +-inf and 0 / 0 is NaN, as numpy divides
Div(a, b) ==
  IF IsNaN(a) \/ IsNaN(b) THEN NaN
  ELSE IF IsInf(b) THEN (IF IsInf(a) THEN NaN ELSE Zero)
  ELSE IF IsInf(a) THEN <<a[1] * (IF b[1] < 0 THEN -1 ELSE 1), 0>>
  ELSE IF b[1] = 0 THEN <<Sign(a[1]), 0>>
  ELSE Norm(a[1] * b[2], a[2] * b[1])

\* a < b; every comparison with NaN is false
Less(a, b) ==
  IF IsNaN(a) \/ IsNaN(b) THEN FALSE
  ELSE IF IsInf(a) /\ IsInf(b) THEN a[1] < b[1]
  ELSE IF IsInf(a) THEN a[1] < 0
  ELSE IF IsInf(b) THEN b[1] > 0
  ELSE a[1] * b[2] < b[1] * a[2]

Greater(a, b) == Less(b, a)

\* Series.fillna(0)
FillNa0(a) == IF IsNaN(a) THEN Zero ELSE a

Column(df, col) == [i \in 1..Len(df) |-> df[i][col]]

\* Series.min() and Series.max(): NaN is skipped, NaN when nothing is left
SeriesMin(s) ==
  LET vals == {s[i] : i \in 1..Len(s)} \ {NaN}
  IN  IF vals = {} THEN NaN
      ELSE CHOOSE v \in vals : \A w \in vals : ~Less(w, v)

SeriesMax(s) ==
  LET vals == {s[i] : i \in 1..Len(s)} \ {NaN}
  IN  IF vals = {} THEN NaN
      ELSE CHOOSE v \in vals : \A w \in vals : ~Less(v, w)

----------------------------------------------------------------------------
\* the Census reply: a header row and one data row per tract, every cell a
\* string or null

Null == "null"
NonNumeric == "N/A"

\* the cells that are the text of a number
NumberText == [i \in -1..MaxMoney |-> ToString(i)]

\* pd.to_numeric(cell, errors='coerce') of one cell
ToNumericCell(cell) ==
  IF \E i \in DOMAIN NumberText : NumberText[i] = cell
  THEN Num(CHOOSE i \in DOMAIN NumberText : NumberText[i] = cell)
  ELSE NaN

STATE_FIPS == "24"
COUNTY_FIPS == "510"

TractCode(i) == "000" \o ToString(i) \o "00"

RawRow(income, rent, edu, transit, own) ==
  [state |-> STATE_FIPS, county |-> COUNTY_FIPS, tract |-> TractCode(0),
   B19013_001E |-> income, B25064_001E |-> rent,
   B15003_022E |-> edu[1], B15003_001E |-> edu[2],
   B08303_013E |-> transit[1], B08303_001E |-> transit[2],
   B25003_002E |-> own[1], B25003_001E |-> own[2]]

\* the rows a reply is made of: one indicator varies around BaseRow, and
\* TopRow is highest in income, education and rent and lowest in ownership
BaseRow == RawRow("1", "1", <<"0", "1">>, <<"0", "1">>, <<"1", "1">>)

TopRow == RawRow(ToString(MaxMoney), "2", <<"1", "1">>, <<"1", "1">>, <<"0", "1">>)

IncomeCells ==
  <<Null, NonNumeric, "-1", "0">> \o [i \in 1..(MaxMoney - 1) |-> ToString(i + 1)]

RentCells == <<Null, "0", "2">>

\* <<numerator, denominator>> of a rate: a share, a zero denominator under a
\* positive and under a zero numerator, a missing denominator, a missing
\* numerator
EducationPairs ==
  <<<<"1", "2">>, <<"1", "1">>, <<"1", "0">>, <<"0", "0">>, <<Null, "1">>>>

TransitPairs == <<<<"1", "2">>, <<"1", "0">>>>

OwnershipPairs == <<<<"1", "2">>, <<"0", "1">>, <<"1", "0">>, <<"1", Null>>>>

RowList ==
  <<BaseRow, TopRow>>
  \o [i \in 1..Len(IncomeCells) |-> [BaseRow EXCEPT !.B19013_001E = IncomeCells[i]]]
  \o [i \in 1..Len(RentCells) |-> [BaseRow EXCEPT !.B25064_001E = RentCells[i]]]
  \o [i \in 1..Len(EducationPairs) |->
        [BaseRow EXCEPT !.B15003_022E = EducationPairs[i][1],
                        !.B15003_001E = EducationPairs[i][2]]]
  \o [i \in 1..Len(TransitPairs) |->
        [BaseRow EXCEPT !.B08303_013E = TransitPairs[i][1],
                        !.B08303_001E = TransitPairs[i][2]]]
  \o [i \in 1..Len(OwnershipPairs) |->
        [BaseRow EXCEPT !.B25003_002E = OwnershipPairs[i][1],
                        !.B25003_001E = OwnershipPairs[i][2]]]

\* the non-decreasing sequences of n positions of RowList, none below lo
RECURSIVE Picks(_, _)
Picks(n, lo) ==
  IF n = 0 THEN {<<>>}
  ELSE UNION { { <<j>> \o rest : rest \in Picks(n - 1, j) } : j \in lo..Len(RowList) }

\* a reply's data rows: the rows of RowList at the positions idx, the tract
\* code set by the position.  No operation of the program depends on the
\* order of the rows, so the rows are taken in the order of RowList.
Table(idx) ==
  [i \in 1..Len(idx) |-> [RowList[idx[i]] EXCEPT !.tract = TractCode(i)]]

HTTP_OK == 200

Reply(raised, status, json_ok, columns_ok, rows) ==
  [raised |-> raised, status |-> status, json_ok |-> json_ok,
   columns_ok |-> columns_ok, rows |-> rows]

\* what requests.get can come back with, a table apart: an exception
\* (network error, timeout), a status other than 200, a body that is no JSON,
\* a JSON body without the requested columns
CensusFailures ==
  { Reply(TRUE, 0, FALSE, FALSE, <<>>),
    Reply(FALSE, 500, FALSE, FALSE, <<>>),
    Reply(FALSE, 204, TRUE, TRUE, <<>>),
    Reply(FALSE, HTTP_OK, FALSE, FALSE, <<>>),
    Reply(FALSE, HTTP_OK, TRUE, FALSE, <<>>) }

\* a reply with a table of at most MaxRows data rows
TableReply(idx) == Reply(FALSE, HTTP_OK, TRUE, TRUE, Table(idx))

\* what requests.post to the BLS can come back with
BlsReplies ==
  { Reply(TRUE, 0, FALSE, FALSE, <<>>),
    Reply(FALSE, 500, FALSE, FALSE, <<>>),
    Reply(FALSE, HTTP_OK, TRUE, TRUE, <<>>) }

----------------------------------------------------------------------------
\* get_census_data: the table, the derived rates, the filter

\* the nine pd.to_numeric columns (public_transport_work, which nothing
\* reads, is left out), next to the geography columns
ToNumeric(rows) ==
  [i \in 1..Len(rows) |->
    [state |-> rows[i].state, county |-> rows[i].county, tract |-> rows[i].tract,
     median_income |-> ToNumericCell(rows[i].B19013_001E),
     median_rent |-> ToNumericCell(rows[i].B25064_001E),
     bachelors_degree |-> ToNumericCell(rows[i].B15003_022E),
     total_education |-> ToNumericCell(rows[i].B15003_001E),
     public_transit_commute |-> ToNumericCell(rows[i].B08303_013E),
     total_commute |-> ToNumericCell(rows[i].B08303_001E),
     owner_occupied |-> ToNumericCell(rows[i].B25003_002E),
     total_housing |-> ToNumericCell(rows[i].B25003_001E)]]

PERCENT == 100

\* (numerator / denominator * 100).fillna(0)
Rate(numerator, denominator) ==
  FillNa0(Mul(Div(numerator, denominator), Num(PERCENT)))

Derive(df) ==
  [i \in 1..Len(df) |->
    [tract_id |-> (df[i].state \o df[i].county) \o df[i].tract,
     median_income |-> df[i].median_income,
     median_rent |-> df[i].median_rent,
     bachelors_degree |-> df[i].bachelors_degree,
     total_education |-> df[i].total_education,
     public_transit_commute |-> df[i].public_transit_commute,
     total_commute |-> df[i].total_commute,
     owner_occupied |-> df[i].owner_occupied,
     total_housing |-> df[i].total_housing,
     education_rate |-> Rate(df[i].bachelors_degree, df[i].total_education),
     transit_rate |-> Rate(df[i].public_transit_commute, df[i].total_commute),
     homeownership_rate |-> Rate(df[i].owner_occupied, df[i].total_housing)]]

\* a >= where the source has >
FilterInvalid_ZeroKept(df) ==
  LET income_ok(r) == ~Less(r.median_income, Zero) /\ ~IsNaN(r.median_income)
      rent_ok(r) == ~Less(r.median_rent, Zero) /\ ~IsNaN(r.median_rent)
      kept == SelectSeq(SelectSeq(df, income_ok), rent_ok)
  IN  [i \in 1..Len(kept) |->
        [tract_id |-> kept[i].tract_id,
         median_income |-> kept[i].median_income,
         median_rent |-> kept[i].median_rent,
         education_rate |-> kept[i].education_rate,
         transit_rate |-> kept[i].transit_rate,
         homeownership_rate |-> kept[i].homeownership_rate]]

\* the rows with median_income > 0, of these the rows with median_rent > 0,
\* and the six columns get_census_data returns
FilterInvalid(df) ==
  LET income_ok(r) == Greater(r.median_income, Zero)
      rent_ok(r) == Greater(r.median_rent, Zero)
      kept == SelectSeq(SelectSeq(df, income_ok), rent_ok)
  IN  [i \in 1..Len(kept) |->
        [tract_id |-> kept[i].tract_id,
         median_income |-> kept[i].median_income,
         median_rent |-> kept[i].median_rent,
         education_rate |-> kept[i].education_rate,
         transit_rate |-> kept[i].transit_rate,
         homeownership_rate |-> kept[i].homeownership_rate]]

----------------------------------------------------------------------------
\* calculate_gentrification_scores

\* (x - min) / (max - min) of one column
MinMax(s) ==
  LET lo == SeriesMin(s)
      hi == SeriesMax(s)
  IN  [i \in 1..Len(s) |-> Div(Sub(s[i], lo), Sub(hi, lo))]

INCOME_WEIGHT == <<3, 10>>
EDUCATION_WEIGHT == <<1, 4>>
RENT_WEIGHT == <<1, 4>>
OWNERSHIP_WEIGHT == <<1, 5>>

\* the ownership component weighted like education and rent
GentrificationRisk_OwnershipQuarter(income, education, rent, ownership) ==
  Add(Add(Add(Mul(income, INCOME_WEIGHT), Mul(education, EDUCATION_WEIGHT)),
          Mul(rent, RENT_WEIGHT)),
      Mul(ownership, RENT_WEIGHT))

GentrificationRisk(income, education, rent, ownership) ==
  Add(Add(Add(Mul(income, INCOME_WEIGHT), Mul(education, EDUCATION_WEIGHT)),
          Mul(rent, RENT_WEIGHT)),
      Mul(ownership, OWNERSHIP_WEIGHT))

\* the inversion written back into homeownership_rate
CalculateGentrificationScores_RateOverwritten(df) ==
  LET income == MinMax(Column(df, "median_income"))
      education == MinMax(Column(df, "education_rate"))
      rent == MinMax(Column(df, "median_rent"))
      own == MinMax(Column(df, "homeownership_rate"))
  IN  [i \in 1..Len(df) |->
        [tract_id |-> df[i].tract_id,
         median_income |-> df[i].median_income,
         median_rent |-> df[i].median_rent,
         education_rate |-> df[i].education_rate,
         transit_rate |-> df[i].transit_rate,
         homeownership_rate |-> Sub(One, own[i]),
         income_score |-> income[i],
         education_score |-> education[i],
         rent_score |-> rent[i],
         ownership_score |-> Sub(One, own[i]),
         gentrification_risk |->
           GentrificationRisk(income[i], education[i], rent[i], Sub(One, own[i]))]]

CalculateGentrificationScores(df) ==
  LET income == MinMax(Column(df, "median_income"))
      education == MinMax(Column(df, "education_rate"))
      rent == MinMax(Column(df, "median_rent"))
      own == MinMax(Column(df, "homeownership_rate"))
  IN  [i \in 1..Len(df) |->
        [tract_id |-> df[i].tract_id,
         median_income |-> df[i].median_income,
         median_rent |-> df[i].median_rent,
         education_rate |-> df[i].education_rate,
         transit_rate |-> df[i].transit_rate,
         homeownership_rate |-> df[i].homeownership_rate,
         income_score |-> income[i],
         education_score |-> education[i],
         rent_score |-> rent[i],
         ownership_score |-> Sub(One, own[i]),
         gentrification_risk |->
           GentrificationRisk(income[i], education[i], rent[i], Sub(One, own[i]))]]

----------------------------------------------------------------------------
\* create_real_data_map: the three markers of a tract and the legend

HIGH_ABOVE == <<66, 100>>
MEDIUM_ABOVE == <<33, 100>>

\* the medium tier starting above one half
Tier_MediumAboveHalf(score) ==
  IF Greater(score, HIGH_ABOVE) THEN "High"
  ELSE IF Greater(score, <<1, 2>>) THEN "Medium"
  ELSE "Low"

\* if score > 0.66 / elif score > 0.33 / else
Tier(score) ==
  IF Greater(score, HIGH_ABOVE) THEN "High"
  ELSE IF Greater(score, MEDIUM_ABOVE) THEN "Medium"
  ELSE "Low"

FillColor(layer, tier) ==
  CASE layer = "income" /\ tier = "High" -> "#FF1744"
    [] layer = "income" /\ tier = "Medium" -> "#FF9800"
    [] layer = "income" /\ tier = "Low" -> "#4CAF50"
    [] layer = "education" /\ tier = "High" -> "#9C27B0"
    [] layer = "education" /\ tier = "Medium" -> "#2196F3"
    [] layer = "education" /\ tier = "Low" -> "#093A28"
    [] layer = "risk" /\ tier = "High" -> "#740127"
    [] layer = "risk" /\ tier = "Medium" -> "#FFFB0A"
    [] layer = "risk" /\ tier = "Low" -> "#5DD270"

LevelName(layer, tier) ==
  CASE layer = "income" -> tier \o " Income"
    [] layer = "education" -> tier \o " Education"
    [] layer = "risk" -> tier \o " Gentrification Risk"

Marker(row, layer, score) ==
  [tract_id |-> row.tract_id, layer |-> layer,
   level |-> LevelName(layer, Tier(score)),
   fillColor |-> FillColor(layer, Tier(score))]

\* the income circle, the education circle and the risk square of each row,
\* in the order of iterrows (the hash-derived offsets of the markers are left
\* out)
Markers(df) ==
  [k \in 1..(3 * Len(df)) |->
    LET row == df[(k + 2) \div 3]
    IN  CASE k % 3 = 1 -> Marker(row, "income", row.income_score)
          [] k % 3 = 2 -> Marker(row, "education", row.education_score)
          [] k % 3 = 0 -> Marker(row, "risk", row.gentrification_risk)]

Legend(df, status) == [tracts |-> Len(df), BLS |-> status["BLS"]]

----------------------------------------------------------------------------
\* save_map, step by step

NoStatus == [k \in {} |-> FALSE]

NoMap == [markers |-> <<>>, legend |-> <<>>]

Init ==
  /\ pc = "start"
  /\ api_status = NoStatus
  /\ response = <<>>
  /\ census_df = <<>>
  /\ m = NoMap
  /\ file = <<>>
  /\ calls = <<>>
  /\ log = <<>>

Succeeded(reply) == ~reply.raised /\ reply.status = HTTP_OK

\* a probe that raises where the source records False
TestOtherApis_Fatal ==
  /\ pc = "start"
  /\ \E reply \in BlsReplies :
       /\ api_status' = [k \in {"BLS"} |-> Succeeded(reply)]
       /\ calls' = Append(calls, [api |-> "BLS", ok |-> Succeeded(reply)])
       /\ pc' = IF Succeeded(reply) THEN "probed" ELSE "failed"
  /\ log' = Append(log, "test_other_apis")
  /\ UNCHANGED <<response, census_df, m, file>>

\* test_other_apis: one POST to the BLS; an exception or a status other than
\* 200 is recorded as False
TestOtherApis ==
  /\ pc = "start"
  /\ \E reply \in BlsReplies :
       /\ api_status' = [k \in {"BLS"} |-> Succeeded(reply)]
       /\ calls' = Append(calls, [api |-> "BLS", ok |-> Succeeded(reply)])
  /\ pc' = "probed"
  /\ log' = Append(log, "test_other_apis")
  /\ UNCHANGED <<response, census_df, m, file>>

\* the status of the reply never looked at
FetchFails_StatusUnchecked(reply) ==
  reply.raised \/ ~reply.json_ok \/ ~reply.columns_ok

\* the ways the try block of get_census_data ends in its except clause
FetchFails(reply) ==
  reply.raised \/ reply.status # HTTP_OK \/ ~reply.json_ok \/ ~reply.columns_ok

\* the reply taken in: on a failure the exception leaves get_census_data,
\* create_real_data_map and save_map
Receive(reply) ==
  /\ response' = <<reply>>
  /\ calls' = Append(calls, [api |-> "Census", ok |-> ~FetchFails(reply)])
  /\ IF FetchFails(reply)
     THEN pc' = "failed" /\ UNCHANGED census_df
     ELSE pc' = "numeric" /\ census_df' = ToNumeric(reply.rows)

\* get_census_data up to pd.to_numeric: one GET
RequestCensus ==
  /\ pc = "probed"
  /\ \/ \E reply \in CensusFailures : Receive(reply)
     \/ \E n \in 0..MaxRows : \E idx \in Picks(n, 1) : Receive(TableReply(idx))
  /\ log' = Append(log, "acquire")
  /\ UNCHANGED <<api_status, m, file>>

DeriveRates ==
  /\ pc = "numeric"
  /\ census_df' = Derive(census_df)
  /\ pc' = "derived"
  /\ log' = Append(log, "derive")
  /\ UNCHANGED <<api_status, response, m, file, calls>>

FilterRows ==
  /\ pc = "derived"
  /\ census_df' = FilterInvalid(census_df)
  /\ pc' = "filtered"
  /\ log' = Append(log, "filter")
  /\ UNCHANGED <<api_status, response, m, file, calls>>

Score ==
  /\ pc = "filtered"
  /\ census_df' = CalculateGentrificationScores(census_df)
  /\ pc' = "scored"
  /\ log' = Append(log, "score")
  /\ UNCHANGED <<api_status, response, m, file, calls>>

CreateMap ==
  /\ pc = "scored"
  /\ m' = [markers |-> Markers(census_df),
           legend |-> <<Legend(census_df, api_status)>>]
  /\ pc' = "mapped"
  /\ log' = Append(log, "present")
  /\ UNCHANGED <<api_status, response, census_df, file, calls>>

\* m.save(filename), then the document rewritten with the intro modal after
\* its <body> tag
WriteDocument ==
  /\ pc = "mapped"
  /\ file' = <<[map |-> m, intro_modal |-> TRUE]>>
  /\ pc' = "done"
  /\ log' = Append(log, "write")
  /\ UNCHANGED <<api_status, response, census_df, m, calls>>

Next ==
  \/ TestOtherApis
  \/ RequestCensus
  \/ DeriveRates
  \/ FilterRows
  \/ Score
  \/ CreateMap
  \/ WriteDocument

Spec == Init /\ [][Next]_vars

----------------------------------------------------------------------------
\* The claims

Scored == pc \in {"scored", "mapped", "done"}

Rows == 1..Len(census_df)

\* C1: once the fetch of get_census_data has failed (an exception, a status
\* other than 200, a body that is no JSON or lacks the columns), the run has
\* ended in the fatal error right after the fetch: no scoring step has run,
\* there is no record set, no map and no output document.
C1_FetchFailureIsFatal ==
  (Len(response) = 1 /\ (\/ response[1].raised
                         \/ response[1].status # 200
                         \/ ~response[1].json_ok
                         \/ ~response[1].columns_ok))
    => /\ pc = "failed"
       /\ log = <<"test_other_apis", "acquire">>
       /\ census_df = <<>>
       /\ m = NoMap
       /\ file = <<>>

C1_Witness ==
  /\ pc = "failed"
  /\ Len(response) = 1
  /\ response[1].status = 200
  /\ response[1].json_ok
  /\ ~response[1].columns_ok

\* C2: whenever an indicator has the same value in every scored record, the
\* normalized score of that indicator is exactly 0 in every record.
C2_DegenerateScoreIsZero ==
  (Scored /\ Len(census_df) > 0) =>
    \A ind \in { <<"median_income", "income_score">>,
                 <<"education_rate", "education_score">>,
                 <<"median_rent", "rent_score">>,
                 <<"homeownership_rate", "ownership_score">> } :
      (\A i \in Rows : \A j \in Rows : census_df[i][ind[1]] = census_df[j][ind[1]])
        => \A i \in Rows : census_df[i][ind[2]] = Zero

InUnitInterval(a) == IsFinite(a) /\ a[1] >= 0 /\ a[1] <= a[2]

\* C3: after scoring, the four component scores and the composite of every
\* record are defined values in [0,1].
C3_ScoresInUnitInterval ==
  Scored =>
    \A i \in Rows :
      \A f \in {"income_score", "education_score", "rent_score",
                "ownership_score", "gentrification_risk"} :
        InUnitInterval(census_df[i][f])

\* C4: the composite of every record is 0.30*income_score +
\* 0.25*education_score + 0.25*rent_score + 0.20*ownership_score (undefined
\* when a component is undefined); the weights sum to 1, so four components
\* of 1 give the composite 1 and four components of 0 give 0.
C4_CompositeIsWeightedSum ==
  /\ Add(Add(Add(INCOME_WEIGHT, EDUCATION_WEIGHT), RENT_WEIGHT), OWNERSHIP_WEIGHT) = One
  /\ Scored =>
       \A i \in Rows :
         LET a == census_df[i].income_score
             b == census_df[i].education_score
             c == census_df[i].rent_score
             d == census_df[i].ownership_score
             risk == census_df[i].gentrification_risk
         IN  /\ IF IsFinite(a) /\ IsFinite(b) /\ IsFinite(c) /\ IsFinite(d)
                THEN /\ IsFinite(risk)
                     /\ risk[1] * 100 * a[2] * b[2] * c[2] * d[2]
                          = risk[2] * (  30 * a[1] * b[2] * c[2] * d[2]
                                       + 25 * b[1] * a[2] * c[2] * d[2]
                                       + 25 * c[1] * a[2] * b[2] * d[2]
                                       + 20 * d[1] * a[2] * b[2] * c[2])
                ELSE IsNaN(risk)
             /\ (a = One /\ b = One /\ c = One /\ d = One) => risk = One
             /\ (a = Zero /\ b = Zero /\ c = Zero /\ d = Zero) => risk = Zero

C4_Witness ==
  /\ Scored
  /\ \E i \in Rows :
       /\ census_df[i].income_score = One
       /\ census_df[i].education_score = One
       /\ census_df[i].rent_score = One
       /\ census_df[i].ownership_score = One
       /\ census_df[i].gentrification_risk = One
  /\ \E i \in Rows :
       /\ census_df[i].ownership_score = <<1, 2>>
       /\ IsFinite(census_df[i].gentrification_risk)

PolarityUp(col, score) ==
  LET s == Column(census_df, col)
  IN  (SeriesMax(s) # SeriesMin(s)) =>
        \A i \in Rows :
          /\ (s[i] = SeriesMin(s)) => census_df[i][score] = Zero
          /\ (s[i] = SeriesMax(s)) => census_df[i][score] = One

\* C5: when the homeownership rates are not all equal, a record with the
\* highest rate has ownership_score 0, a record with the lowest has 1, and a
\* higher rate never has a higher ownership_score; for income, education rate
\* and rent the lowest value scores 0 and the highest scores 1.
C5_OwnershipPolarity ==
  Scored =>
    LET own == Column(census_df, "homeownership_rate")
    IN  /\ (SeriesMax(own) # SeriesMin(own)) =>
             /\ \A i \in Rows :
                  /\ (own[i] = SeriesMax(own)) => census_df[i].ownership_score = Zero
                  /\ (own[i] = SeriesMin(own)) => census_df[i].ownership_score = One
             /\ \A i \in Rows : \A j \in Rows :
                  Less(own[i], own[j]) =>
                    ~Less(census_df[i].ownership_score, census_df[j].ownership_score)
             /\ PolarityUp("median_income", "income_score")
             /\ PolarityUp("education_rate", "education_score")
             /\ PolarityUp("median_rent", "rent_score")

\* a cell of the reply that is a number above zero
PositiveCell(cell) == \E i \in 1..MaxMoney : NumberText[i] = cell

KeepsRow(r) == PositiveCell(r.B19013_001E) /\ PositiveCell(r.B25064_001E)

\* C6: a row of the reply whose median income or median rent is zero,
\* negative, missing or not a number is in no record set from the filter on;
\* every record left has both above zero; and the scores are those of the
\* reply with the discarded rows taken out beforehand, so that no discarded
\* row has a part in a minimum or maximum.
C6_FilterBeforeScoring ==
  (pc \in {"filtered", "scored", "mapped", "done"}) =>
    LET rows == response[1].rows
    IN  /\ \A i \in 1..Len(rows) :
             ~KeepsRow(rows[i]) =>
               \A j \in Rows :
                 census_df[j].tract_id # ("24" \o "510") \o rows[i].tract
        /\ \A j \in Rows :
             /\ IsFinite(census_df[j].median_income)
             /\ census_df[j].median_income[1] > 0
             /\ IsFinite(census_df[j].median_rent)
             /\ census_df[j].median_rent[1] > 0
        /\ (pc = "scored") =>
             census_df = CalculateGentrificationScores(
                           FilterInvalid(Derive(ToNumeric(SelectSeq(rows, KeepsRow)))))

C6_Witness ==
  /\ Scored
  /\ Len(census_df) = 2
  /\ Len(response[1].rows) = 3
  /\ \E i \in 1..3 : response[1].rows[i].B19013_001E = "0"
  /\ census_df[1].income_score = Zero
  /\ census_df[2].income_score = One

\* C7: a derived rate whose denominator is zero or missing is exactly 0,
\* whatever the numerator; otherwise it is a finite value, and with the
\* numerator present it is numerator / denominator * 100.
C7_ZeroDenominatorRateIsZero ==
  (pc = "derived") =>
    \A i \in Rows :
      \A t \in { <<"bachelors_degree", "total_education", "education_rate">>,
                 <<"public_transit_commute", "total_commute", "transit_rate">>,
                 <<"owner_occupied", "total_housing", "homeownership_rate">> } :
        LET num == census_df[i][t[1]]
            den == census_df[i][t[2]]
            rate == census_df[i][t[3]]
        IN  IF den = Zero \/ IsNaN(den)
            THEN rate = Zero
            ELSE /\ IsFinite(rate)
                 /\ IsFinite(num) => rate[1] * den[1] = 100 * num[1] * rate[2]

\* C8 as stated: a run makes one outbound call, and once any outbound call
\* has failed the run has ended in the failure.
C8_OneCallAnyFailureTerminal ==
  /\ Len(calls) <= 1
  /\ (\E i \in 1..Len(calls) : ~calls[i].ok) => pc = "failed"

\* C8, amended: a run makes at most two outbound calls, the BLS probe and
\* then the Census fetch, each once and never again; a failed fetch ends the
\* run right there, and nothing but a failed fetch ends it: a failed probe is
\* recorded as BLS unavailable and the run goes on.
C8_ProbeThenFetchOnlyFetchFatal ==
  /\ Len(calls) <= 2
  /\ \A i \in 1..Len(calls) : calls[i].api = <<"BLS", "Census">>[i]
  /\ (Len(calls) >= 1) => api_status["BLS"] = calls[1].ok
  /\ (Len(calls) = 2 /\ ~calls[2].ok) =>
       pc = "failed" /\ log = <<"test_other_apis", "acquire">>
  /\ (pc = "failed") => (Len(calls) = 2 /\ ~calls[2].ok)

C8_Witness ==
  /\ pc = "done"
  /\ Len(calls) = 2
  /\ ~calls[1].ok
  /\ calls[2].ok
  /\ Len(file) = 1

LayerScore(row, layer) ==
  CASE layer = "income" -> row.income_score
    [] layer = "education" -> row.education_score
    [] layer = "risk" -> row.gentrification_risk

LayerSuffix(layer) ==
  CASE layer = "income" -> " Income"
    [] layer = "education" -> " Education"
    [] layer = "risk" -> " Gentrification Risk"

TierRank(marker) ==
  CASE marker.level = "High" \o LayerSuffix(marker.layer) -> 3
    [] marker.level = "Medium" \o LayerSuffix(marker.layer) -> 2
    [] marker.level = "Low" \o LayerSuffix(marker.layer) -> 1
    [] OTHER -> 0

\* C9: every record has one income, one education and one risk marker; the
\* tier of a marker is high when its score is above 0.66, medium when above
\* 0.33 and at most 0.66, low otherwise, an undefined score included; and a
\* larger score never has a lower tier.
C9_TiersByThreshold ==
  (pc \in {"mapped", "done"}) =>
    LET marks == m.markers
        ScoreOf(k) == LayerScore(census_df[(k + 2) \div 3], marks[k].layer)
    IN  /\ Len(marks) = 3 * Len(census_df)
        /\ \A k \in 1..Len(marks) :
             LET s == ScoreOf(k)
             IN  /\ marks[k].tract_id = census_df[(k + 2) \div 3].tract_id
                 /\ marks[k].layer = <<"income", "education", "risk">>[((k - 1) % 3) + 1]
                 /\ TierRank(marks[k]) =
                      IF s[2] > 0 /\ 100 * s[1] > 66 * s[2] THEN 3
                      ELSE IF s[2] > 0 /\ 100 * s[1] > 33 * s[2] THEN 2
                      ELSE 1
        /\ \A k \in 1..Len(marks) : \A l \in 1..Len(marks) :
             (IsFinite(ScoreOf(k)) /\ IsFinite(ScoreOf(l))
                /\ ScoreOf(k)[1] * ScoreOf(l)[2] <= ScoreOf(l)[1] * ScoreOf(k)[2])
               => TierRank(marks[k]) <= TierRank(marks[l])

C9_Witness ==
  /\ pc = "mapped"
  /\ \E k \in 1..Len(m.markers) : m.markers[k].level = "Medium Income"
  /\ \E k \in 1..Len(m.markers) : m.markers[k].level = "High Income"
  /\ \E k \in 1..Len(m.markers) :
       /\ m.markers[k].level = "Low Gentrification Risk"
       /\ IsNaN(census_df[k \div 3].gentrification_risk)

\* the six columns get_census_data returns
Unscored(df) ==
  [i \in 1..Len(df) |->
    [tract_id |-> df[i].tract_id,
     median_income |-> df[i].median_income,
     median_rent |-> df[i].median_rent,
     education_rate |-> df[i].education_rate,
     transit_rate |-> df[i].transit_rate,
     homeownership_rate |-> df[i].homeownership_rate]]

RunOrder ==
  <<"test_other_apis", "acquire", "derive", "filter", "score", "present", "write">>

\* C10: the steps of a run are taken once each in the order acquisition,
\* derivation, filtering, scoring, presentation, document write (after the
\* probe); scoring leaves the records, their identifiers and their raw and
\* derived fields as they were; and no step after scoring changes a record.
C10_Lifecycle ==
  /\ [](Len(log) <= Len(RunOrder) /\ log = SubSeq(RunOrder, 1, Len(log)))
  /\ [](pc = "done" => log = RunOrder)
  /\ [][(pc = "filtered" /\ pc' = "scored") => Unscored(census_df') = census_df]_vars
  /\ [][(pc \in {"scored", "mapped", "done"}) => census_df' = census_df]_vars

C10_Witness ==
  /\ pc = "done"
  /\ log = RunOrder
  /\ Len(census_df) >= 2
  /\ Len(m.markers) = 3 * Len(census_df)
  /\ file = <<[map |-> m, intro_modal |-> TRUE]>>

====
